---- MODULE Spec2Model ----
(***************************************************************************)
(* A model of the terminal line-editing core of forge: the command history *)
(* (src/src/terminal/history.rs), the key decoder and reader               *)
(* (src/src/terminal/input.rs), the line editor                            *)
(* (src/src/terminal/editor.rs) and the raw mode controller                *)
(* (src/src/terminal/raw.rs).                                              *)
(*                                                                         *)
(* A Rust String is a sequence of one-character strings; Option<T> is the  *)
(* empty sequence (None) or a one-element sequence (Some).                 *)
(***************************************************************************)
EXTENDS Integers, Sequences, FiniteSets, TLC

VARIABLES
    history,    \* the CommandHistory value
    ret,        \* what the last history call returned (Option<String>)
    op,         \* the last history call: [name, arg]
    prev_op,    \* the history call before it
    pre,        \* the CommandHistory value before the last call
    accepted,   \* Some(lines add_command appended since new), None after clear/load
    walk,       \* Some([pattern, rets]): the last start_search and what the
                \* search_previous calls after it returned; None otherwise
    panicked,   \* an arithmetic overflow panic unwound the caller
    file,       \* the history file: None (absent) or Some(content)
    saved,      \* the entries the last save_to_file wrote
    fresh,      \* a second CommandHistory, new(c) then load_from_file, or None
    buffer,     \* InputReader.buffer
    key,        \* what parse_key returned for buffer, or None
    stdin,      \* the bytes waiting on standard input
    closed,     \* standard input is at end of file once stdin is drained
    typed,      \* the keypresses made so far, each the bytes the terminal sent
    consumed,   \* for each finished read_key call, the bytes it took from stdin
    rk,         \* where read_key stands: "idle", "more" (at the second read)
    current_line,        \* LineEditor.current_line
    cursor_pos,          \* LineEditor.cursor_pos, a byte offset
    multiline_mode,      \* LineEditor.multiline_mode
    completion_callback, \* None, or Some("callback") once a callback is set
    mode,       \* "None" (no editor yet), "Idle" (no read_line yet), "Reading"
                \* (in the loop of read_line), "Searching" (in the loop of
                \* handle_reverse_search), "Committed", "Interrupted",
                \* "EndOfInput" (read_line returned)
    search_term,\* the local search_term of handle_reverse_search
    line_ret,   \* what the last read_line returned: None, Some(Ok/Err)
    last_key,   \* the key the editor handled last, or None
    ed_pre,     \* current_line, cursor_pos and mode before that key
    hist0,      \* the history entries when read_line started
    inserted,   \* Some(the characters inserted since read_line started) while
                \* only Char and Space keys were handled, None otherwise
    is_raw,            \* RawTerminal.is_raw
    original_termios,  \* RawTerminal.original_termios
    tty,        \* the mode of the terminal device
    raw_op,     \* the last RawTerminal call and its result
    raw_pre,    \* is_raw, original_termios and tty before that call
    captured,   \* Some(the mode the terminal had when enable_raw_mode last
                \* succeeded), None before
    other       \* a second RawTerminal value, Some([is_raw, original_termios]),
                \* or None when there is none

vars == <<history, ret, op, prev_op, pre, accepted, walk, panicked, file,
          saved, fresh, buffer, key, stdin, closed, typed, consumed, rk,
          current_line, cursor_pos, multiline_mode, completion_callback, mode,
          search_term, line_ret, last_key, ed_pre, hist0, inserted,
          is_raw, original_termios, tty, raw_op, raw_pre, captured, other>>

histVars == <<history, ret, op, prev_op, pre, accepted, walk, panicked, file,
              saved, fresh>>

keyVars == <<buffer, key>>

readVars == <<stdin, closed, typed, consumed, rk>>

edVars == <<current_line, cursor_pos, multiline_mode, completion_callback,
            mode, search_term, line_ret, last_key, ed_pre, hist0, inserted>>

rawVars == <<is_raw, original_termios, tty, raw_op, raw_pre, captured, other>>

(***************************************************************************)
(* Bounds of the model.                                                    *)
(***************************************************************************)
\* capacities 0..MaxCap are given to CommandHistory::new
MaxCap == 2

\* add_command appends at most MaxAdds lines to one history
MaxAdds == 3

\* at most MaxWalk search_previous calls follow one start_search
MaxWalk == 4

(***************************************************************************)
(* Option, strings.                                                        *)
(***************************************************************************)
None == <<>>

Some(x) == <<x>>

IsSome(o) == o # <<>>

Unwrap(o) == o[1]

\* char::is_whitespace, on the characters of the model
is_whitespace(c) == c \in {" ", "\n", "\t", "\r"}

\* char::to_lowercase, on the characters of the model
char_to_lowercase(c) ==
    CASE c = "A" -> "a"
      [] c = "B" -> "b"
      [] c = "G" -> "g"
      [] OTHER -> c

\* str::to_lowercase
to_lowercase(s) == [i \in 1..Len(s) |-> char_to_lowercase(s[i])]

RECURSIVE trim_start(_)
\* str::trim_start
trim_start(s) ==
    IF s = <<>> THEN <<>>
    ELSE IF is_whitespace(Head(s)) THEN trim_start(Tail(s))
    ELSE s

RECURSIVE trim_end(_)
\* str::trim_end
trim_end(s) ==
    IF s = <<>> THEN <<>>
    ELSE IF is_whitespace(s[Len(s)]) THEN trim_end(SubSeq(s, 1, Len(s) - 1))
    ELSE s

\* str::trim
trim(s) == trim_end(trim_start(s))

\* str::contains(&str): pat occurs in s as a contiguous run
contains(s, pat) ==
    \E i \in 1..(Len(s) - Len(pat) + 1) : SubSeq(s, i, i + Len(pat) - 1) = pat

RECURSIVE join(_, _)
\* [&str]::join(sep)
join(ss, sep) ==
    IF ss = <<>> THEN <<>>
    ELSE IF Len(ss) = 1 THEN ss[1]
    ELSE ss[1] \o sep \o join(Tail(ss), sep)

\* a line of str::lines loses its "\n" and then the "\r" before it
strip_cr(l) ==
    IF l # <<>> /\ l[Len(l)] = "\r" THEN SubSeq(l, 1, Len(l) - 1) ELSE l

RECURSIVE split_lines(_, _)
\* str::lines: the pieces of s ended by "\n", cur being the piece in progress;
\* a final piece with no line ending is produced only when it is not empty
split_lines(s, cur) ==
    IF s = <<>> THEN (IF cur = <<>> THEN <<>> ELSE <<cur>>)
    ELSE IF Head(s) = "\n" THEN <<strip_cr(cur)>> \o split_lines(Tail(s), <<>>)
    ELSE split_lines(Tail(s), Append(cur, Head(s)))

\* str::lines
lines(s) == split_lines(s, <<>>)

(***************************************************************************)
(* CommandHistory (history.rs). A history value is a record                *)
(*   [commands, max_size, current_index, search_state];                    *)
(* a method is an operator from the value (and arguments) to               *)
(*   [h |-> the value after the call, ret |-> what it returned,            *)
(*    panic |-> whether an arithmetic overflow panicked].                  *)
(***************************************************************************)
\* CommandHistory::new
new(max_size) ==
    [commands |-> <<>>, max_size |-> max_size,
     current_index |-> None, search_state |-> None]

\* VecDeque::pop_front: nothing to remove from an empty deque
pop_front(q) == IF q = <<>> THEN q ELSE Tail(q)

\* VecDeque::back
back(q) == IF q = <<>> THEN None ELSE Some(q[Len(q)])

\* VecDeque::get, with a 0-based index
get(q, i) == IF i >= 0 /\ i < Len(q) THEN Some(q[i + 1]) ELSE None

\* push_evicting with the eviction one entry late (> for >=)
push_evicting_late(q, max_size, s) ==
    Append(IF Len(q) > max_size THEN pop_front(q) ELSE q, s)

\* the push of add_command and load_from_file: evict the oldest at capacity
push_evicting(q, max_size, s) ==
    Append(IF Len(q) >= max_size THEN pop_front(q) ELSE q, s)

\* add_command without the comparison with the last command
add_command_no_dedup(h, command) ==
    IF trim(command) = <<>> THEN h
    ELSE [h EXCEPT !.commands = push_evicting(h.commands, h.max_size, command),
                   !.current_index = None,
                   !.search_state = None]

\* CommandHistory::add_command
add_command(h, command) ==
    IF trim(command) = <<>> THEN h
    ELSE IF back(h.commands) = Some(command) THEN h
    ELSE [h EXCEPT !.commands = push_evicting(h.commands, h.max_size, command),
                   !.current_index = None,
                   !.search_state = None]

\* get_previous wrapping from the oldest entry to the newest
get_previous_wrapping(h) ==
    IF h.commands = <<>> THEN [h |-> h, ret |-> None, panic |-> FALSE]
    ELSE LET index == IF h.current_index = None \/ h.current_index = Some(0)
                      THEN Len(h.commands) - 1
                      ELSE Unwrap(h.current_index) - 1
         IN [h |-> [h EXCEPT !.current_index = Some(index)],
             ret |-> get(h.commands, index), panic |-> FALSE]

\* CommandHistory::get_previous
get_previous(h) ==
    IF h.commands = <<>> THEN [h |-> h, ret |-> None, panic |-> FALSE]
    ELSE IF h.current_index = None
    THEN [h |-> [h EXCEPT !.current_index = Some(Len(h.commands) - 1)],
          ret |-> get(h.commands, Len(h.commands) - 1), panic |-> FALSE]
    ELSE LET index == Unwrap(h.current_index) IN
         IF index > 0
         THEN [h |-> [h EXCEPT !.current_index = Some(index - 1)],
               ret |-> get(h.commands, index - 1), panic |-> FALSE]
         ELSE [h |-> h, ret |-> get(h.commands, 0), panic |-> FALSE]

\* CommandHistory::get_next. On an empty deque commands.len() - 1 overflows:
\* a build with overflow checks panics there (panic |-> TRUE); NoOverflow
\* says that no reachable call gets there.
get_next(h) ==
    IF h.current_index = None THEN [h |-> h, ret |-> None, panic |-> FALSE]
    ELSE LET index == Unwrap(h.current_index) IN
         IF Len(h.commands) = 0 THEN [h |-> h, ret |-> None, panic |-> TRUE]
         ELSE IF index < Len(h.commands) - 1
         THEN [h |-> [h EXCEPT !.current_index = Some(index + 1)],
               ret |-> get(h.commands, index + 1), panic |-> FALSE]
         ELSE [h |-> [h EXCEPT !.current_index = None],
               ret |-> None, panic |-> FALSE]

\* CommandHistory::reset_navigation
reset_navigation(h) ==
    [h EXCEPT !.current_index = None, !.search_state = None]

\* clear without the reset of current_index
clear_keeps_index(h) == [h EXCEPT !.commands = <<>>, !.search_state = None]

\* CommandHistory::clear
clear(h) ==
    [h EXCEPT !.commands = <<>>, !.current_index = None, !.search_state = None]

RECURSIVE find_matches(_, _, _)
\* the loop of start_search: the 0-based indices i..len-1 of the commands that
\* contain pattern, case folded, in increasing order
find_matches(commands, pattern, i) ==
    IF i >= Len(commands) THEN <<>>
    ELSE (IF contains(to_lowercase(commands[i + 1]), pattern) THEN <<i>> ELSE <<>>)
         \o find_matches(commands, pattern, i + 1)

\* the matches left oldest first
reverse_omitted(v) == v

\* Vec::reverse
reverse(v) == [i \in 1..Len(v) |-> v[Len(v) + 1 - i]]

\* CommandHistory::start_search
start_search(h, pattern) ==
    LET lowered == to_lowercase(pattern)
        matches == find_matches(h.commands, lowered, 0)
    IN IF matches # <<>>
       THEN [h EXCEPT !.search_state =
                Some([pattern |-> lowered, matches |-> reverse(matches),
                      current_match |-> 0])]
       ELSE h

\* CommandHistory::search_previous
search_previous(h) ==
    IF h.search_state # None
       /\ Unwrap(h.search_state).current_match < Len(Unwrap(h.search_state).matches)
    THEN LET search == Unwrap(h.search_state)
             command_index == search.matches[search.current_match + 1]
         IN [h |-> [h EXCEPT !.search_state =
                      Some([search EXCEPT !.current_match = search.current_match + 1])],
             ret |-> get(h.commands, command_index), panic |-> FALSE]
    ELSE [h |-> h, ret |-> None, panic |-> FALSE]

\* CommandHistory::search_next
search_next(h) ==
    IF h.search_state # None /\ Unwrap(h.search_state).current_match > 0
    THEN LET search == Unwrap(h.search_state)
             current_match == search.current_match - 1
             command_index == search.matches[current_match + 1]
         IN [h |-> [h EXCEPT !.search_state =
                      Some([search EXCEPT !.current_match = current_match])],
             ret |-> get(h.commands, command_index), panic |-> FALSE]
    ELSE [h |-> h, ret |-> None, panic |-> FALSE]

\* CommandHistory::save_to_file: the content written (the file system does
\* not fail in the model)
save_to_file(h) == join(h.commands, <<"\n">>)

RECURSIVE load_lines(_, _, _)
\* the loop of load_from_file over the lines ls of the file
load_lines(commands, max_size, ls) ==
    IF ls = <<>> THEN commands
    ELSE LET trimmed == trim(Head(ls)) IN
         load_lines(IF trimmed # <<>>
                    THEN push_evicting(commands, max_size, trimmed)
                    ELSE commands,
                    max_size, Tail(ls))

\* CommandHistory::load_from_file, f being the file: None when the path does
\* not exist
load_from_file(h, f) ==
    IF f = None THEN h
    ELSE [h EXCEPT !.commands = load_lines(<<>>, h.max_size, lines(Unwrap(f))),
                   !.current_index = None,
                   !.search_state = None]

(***************************************************************************)
(* The history as a state machine: one action per public method, called by *)
(* a client with lines and patterns from small sets.                       *)
(***************************************************************************)
\* the lines given to add_command: empty, whitespace-only and plain
Lines == { <<>>, <<" ">>, <<"a">>, <<"b">>, <<"c">> }

\* the lines given to add_command before a save: whitespace-only, plain, with
\* leading whitespace and of two lines
FileLines == { <<" ">>, <<"a">>, <<" ", "a">>, <<"a", "\n", "b">> }

\* the patterns given to start_search
Patterns == { <<"g">>, <<"B">>, <<"z">> }

NoArg == <<>>

Call(name, arg) == [name |-> name, arg |-> arg]

\* the effect of a call that returned r = [h, ret, panic]; the second history,
\* if one was made, is dropped when the client goes on
Returned(name, arg, r) ==
    /\ ~panicked
    /\ history' = r.h
    /\ ret' = r.ret
    /\ panicked' = r.panic
    /\ prev_op' = op
    /\ op' = Call(name, arg)
    /\ pre' = history
    /\ fresh' = None

\* a call that returns nothing
Unit(h) == [h |-> h, ret |-> None, panic |-> FALSE]

\* whether add_command(command) is an accepted add: the line is not blank and
\* differs from the newest entry
Accepted(h, command) == trim(command) # <<>> /\ back(h.commands) # Some(command)

AddCommand(given) ==
    \E command \in given :
        /\ accepted # None => Len(Unwrap(accepted)) < MaxAdds
        /\ Returned("add_command", command, Unit(add_command(history, command)))
        /\ accepted' = IF accepted # None /\ Accepted(history, command)
                       THEN Some(Append(Unwrap(accepted), command))
                       ELSE accepted
        /\ walk' = None
        /\ UNCHANGED <<file, saved, keyVars, readVars, edVars,
                   rawVars>>

GetPrevious ==
    /\ Returned("get_previous", NoArg, get_previous(history))
    /\ walk' = None
    /\ UNCHANGED <<accepted, file, saved, keyVars, readVars, edVars,
                   rawVars>>

GetNext ==
    /\ Returned("get_next", NoArg, get_next(history))
    /\ walk' = None
    /\ UNCHANGED <<accepted, file, saved, keyVars, readVars, edVars,
                   rawVars>>

ResetNavigation ==
    /\ Returned("reset_navigation", NoArg, Unit(reset_navigation(history)))
    /\ walk' = None
    /\ UNCHANGED <<accepted, file, saved, keyVars, readVars, edVars,
                   rawVars>>

Clear ==
    /\ Returned("clear", NoArg, Unit(clear(history)))
    /\ accepted' = None
    /\ walk' = None
    /\ UNCHANGED <<file, saved, keyVars, readVars, edVars,
                   rawVars>>

SaveToFile ==
    /\ Returned("save_to_file", NoArg, Unit(history))
    /\ file' = Some(save_to_file(history))
    /\ saved' = Some(history.commands)
    /\ walk' = None
    /\ UNCHANGED <<accepted, keyVars, readVars, edVars,
                   rawVars>>

LoadFromFile ==
    /\ Returned("load_from_file", NoArg, Unit(load_from_file(history, file)))
    /\ accepted' = IF file = None THEN accepted ELSE None
    /\ walk' = None
    /\ UNCHANGED <<file, saved, keyVars, readVars, edVars,
                   rawVars>>

\* the lines given to add_command before a search
SearchLines == { <<"g", "a">>, <<"G", "b">>, <<"b">>, <<"a", "g">> }

StartSearch ==
    \E pattern \in Patterns :
        /\ Returned("start_search", pattern, Unit(start_search(history, pattern)))
        /\ walk' = Some([pattern |-> pattern, rets |-> <<>>])
        /\ UNCHANGED <<accepted, file, saved, keyVars, readVars, edVars,
                   rawVars>>

SearchPrevious ==
    /\ walk # None => Len(Unwrap(walk).rets) < MaxWalk
    /\ Returned("search_previous", NoArg, search_previous(history))
    /\ walk' = IF walk # None /\ op.name \in {"start_search", "search_previous"}
               THEN Some([Unwrap(walk) EXCEPT
                            !.rets = Append(@, search_previous(history).ret)])
               ELSE None
    /\ UNCHANGED <<accepted, file, saved, keyVars, readVars, edVars,
                   rawVars>>

SearchNext ==
    /\ Returned("search_next", NoArg, search_next(history))
    /\ walk' = IF op.name = "search_previous" THEN walk ELSE None
    /\ UNCHANGED <<accepted, file, saved, keyVars, readVars, edVars,
                   rawVars>>

\* a second history of equal or greater capacity is made and loads the
\* file this history saved
LoadIntoFresh ==
    \E max_size \in history.max_size..MaxCap :
        /\ saved # None
        /\ ~panicked
        /\ fresh' = Some(load_from_file(new(max_size), file))
        /\ UNCHANGED <<history, ret, op, prev_op, pre, accepted, walk, panicked,
                       file, saved, keyVars, readVars, edVars,
                   rawVars>>

HistInit ==
    /\ \E max_size \in 0..MaxCap : history = new(max_size)
    /\ ret = None
    /\ op = Call("new", NoArg)
    /\ prev_op = Call("new", NoArg)
    /\ pre = history
    /\ accepted = Some(<<>>)
    /\ walk = None
    /\ panicked = FALSE
    /\ file = None
    /\ saved = None
    /\ fresh = None

KeyIdle == buffer = <<>> /\ key = None

\* nothing typed, nothing read
ReadIdle ==
    /\ stdin = <<>>
    /\ closed = FALSE
    /\ typed = <<>>
    /\ consumed = <<>>
    /\ rk = "idle"

\* the line and the cursor of an editor, with the place read_line stands at
EdState == [current_line |-> current_line, cursor_pos |-> cursor_pos, mode |-> mode]

\* no LineEditor was made yet
EdIdle ==
    /\ current_line = <<>>
    /\ cursor_pos = 0
    /\ multiline_mode = FALSE
    /\ completion_callback = None
    /\ mode = "None"
    /\ search_term = <<>>
    /\ line_ret = None
    /\ last_key = None
    /\ ed_pre = EdState
    /\ hist0 = <<>>
    /\ inserted = None

\* a termios value: the local flags that are set and the two control
\* characters the code writes
Termios(lflag, vmin, vtime) == [c_lflag |-> lflag, VMIN |-> vmin, VTIME |-> vtime]

\* the mode of a terminal as a shell leaves it
Cooked == Termios({"ICANON", "ECHO", "ISIG"}, 1, 0)

\* is_raw, original_termios and the mode of the terminal
RawState == [is_raw |-> is_raw, original_termios |-> original_termios, tty |-> tty]

\* RawTerminal::new, on a terminal in cooked mode
RawIdle ==
    /\ is_raw = FALSE
    /\ original_termios = None
    /\ tty = Cooked
    /\ raw_op = [name |-> "new", ret |-> "Ok"]
    /\ raw_pre = RawState
    /\ captured = None
    /\ other = None

Init == HistInit /\ KeyIdle /\ ReadIdle /\ EdIdle /\ RawIdle

Next ==
    \/ AddCommand(Lines)
    \/ GetPrevious
    \/ GetNext
    \/ ResetNavigation
    \/ Clear

Spec == Init /\ [][Next]_vars

NextFile ==
    \/ AddCommand(FileLines)
    \/ GetPrevious
    \/ GetNext
    \/ Clear
    \/ SaveToFile
    \/ LoadFromFile
    \/ LoadIntoFresh

SpecFile == Init /\ [][NextFile]_vars

NextSearch ==
    \/ AddCommand(SearchLines)
    \/ StartSearch
    \/ SearchPrevious
    \/ SearchNext

SpecSearch == Init /\ [][NextSearch]_vars

\* every method that reads or moves current_index, with a history file
NextNav ==
    \/ AddCommand(Lines)
    \/ GetPrevious
    \/ GetNext
    \/ ResetNavigation
    \/ Clear
    \/ SaveToFile
    \/ LoadFromFile

SpecNav == Init /\ [][NextNav]_vars

(***************************************************************************)
(* Properties of the history.                                              *)
(***************************************************************************)
\* no reachable call overflows commands.len() - 1
NoOverflow == ~panicked

\* the last n elements of s
LastN(s, n) == SubSeq(s, Len(s) - n + 1, Len(s))

\* C1: in a history of capacity C >= 1 that has seen more than C accepted
\* adds (and no clear or load), the log is exactly the last C accepted lines,
\* oldest first.
C1_LastCAcceptedKept ==
    (accepted # None /\ history.max_size >= 1
        /\ Len(Unwrap(accepted)) > history.max_size)
    => history.commands = LastN(Unwrap(accepted), history.max_size)

\* C1 witness: capacity 2 after the third accepted add, which evicted.
C1_Witness ==
    /\ accepted # None
    /\ history.max_size = 2
    /\ Len(Unwrap(accepted)) = 3
    /\ op.name = "add_command"
    /\ Len(pre.commands) = 2
    /\ history.commands # pre.commands

\* C4: after any call to add_command the navigation cursor is None, and a
\* get_previous that follows returns the newest entry (stated for the
\* capacities >= 1, where the log is within its capacity).
C4_AddResetsCursor ==
    history.max_size >= 1 =>
        /\ op.name = "add_command" => history.current_index = None
        /\ (op.name = "get_previous" /\ prev_op.name = "add_command"
                /\ history.commands # <<>>) =>
              ret = Some(history.commands[Len(history.commands)])

\* s with its oldest k elements dropped and x appended
DropAppend(s, k, x) == Append(SubSeq(s, 1 + k, Len(s)), x)

\* C5: add(x) right after add(x) leaves one newest entry x and changes
\* nothing; only the newest entry suppresses, so a line that differs from the
\* newest entry is appended even when an older entry equals it; a blank line
\* is never appended.
C5_DuplicateSuppression ==
    op.name = "add_command" =>
        LET x == op.arg
            before == pre.commands
            after == history.commands
        IN /\ trim(x) = <<>> => after = before
           /\ (trim(x) # <<>> /\ prev_op = op) =>
                 /\ after = before
                 /\ after[Len(after)] = x
                 /\ Len(after) >= 2 => after[Len(after) - 1] # x
           /\ (trim(x) # <<>> /\ before # <<>> /\ before[Len(before)] = x) =>
                 after = before
           /\ (trim(x) # <<>> /\ (before = <<>> \/ before[Len(before)] # x)) =>
                 \E k \in 0..1 : after = DropAppend(before, k, x)

\* C5 witness: add(x) twice in a row, x not blank, over an older entry.
C5_Witness ==
    /\ op.name = "add_command"
    /\ prev_op = op
    /\ trim(op.arg) # <<>>
    /\ Len(history.commands) >= 2
    /\ history.commands = pre.commands

\* C6: get_previous starts at the newest entry, then steps to the next older
\* one, and at the oldest keeps returning the oldest; get_next returns None
\* when not navigating, else steps to the next newer entry, and at the newest
\* returns None and leaves navigation. Neither changes the entries.
C6_ClampedWalk ==
    LET n == Len(pre.commands)
        at == pre.current_index
    IN /\ (op.name = "get_previous" /\ n > 0) =>
             /\ history.commands = pre.commands
             /\ at = None =>
                   ret = Some(pre.commands[n]) /\ history.current_index = Some(n - 1)
             /\ (at # None /\ Unwrap(at) > 0) =>
                   /\ ret = Some(pre.commands[Unwrap(at)])
                   /\ history.current_index = Some(Unwrap(at) - 1)
             /\ at = Some(0) =>
                   ret = Some(pre.commands[1]) /\ history.current_index = Some(0)
       /\ op.name = "get_next" =>
             /\ history.commands = pre.commands
             /\ at = None => ret = None /\ history.current_index = None
             /\ (at # None /\ Unwrap(at) < n - 1) =>
                   /\ ret = Some(pre.commands[Unwrap(at) + 2])
                   /\ history.current_index = Some(Unwrap(at) + 1)
             /\ (at # None /\ Unwrap(at) >= n - 1) =>
                   ret = None /\ history.current_index = None

\* C6 witness: a get_previous at the oldest of two entries, after a
\* get_previous that reached it, returns the oldest again.
C6_Witness ==
    /\ op.name = "get_previous"
    /\ prev_op.name = "get_previous"
    /\ Len(history.commands) >= 2
    /\ pre.current_index = Some(0)
    /\ ret = Some(history.commands[1])

\* C2: the log never holds more entries than the capacity, whatever the
\* capacity (0 included), and no call changes the capacity.
C2_LengthWithinCapacity ==
    /\ Len(history.commands) <= history.max_size
    /\ history.max_size = pre.max_size

\* C3: a fresh history of equal or greater capacity that loads what this
\* history saved holds the saved entries, in order (stated for the
\* capacities >= 1, where the log is within its capacity).
C3_SaveLoadRoundTrip ==
    (fresh # None /\ history.max_size >= 1) =>
        Unwrap(fresh).commands = Unwrap(saved)

\* whether s contains p as a substring, case ignored
ContainsIgnoringCase(s, p) == contains(to_lowercase(s), to_lowercase(p))

RECURSIVE MatchesNewestFirst(_, _)
\* the entries of commands that contain p, case ignored, newest first
MatchesNewestFirst(commands, p) ==
    IF commands = <<>> THEN <<>>
    ELSE (IF ContainsIgnoringCase(commands[Len(commands)], p)
          THEN <<commands[Len(commands)]>> ELSE <<>>)
         \o MatchesNewestFirst(SubSeq(commands, 1, Len(commands) - 1), p)

\* C7: after start_search(p) with at least one entry containing p, the k-th
\* of the following search_previous calls returns the k-th newest entry that
\* contains p, and None once every one of them has been returned.
C7_SearchPreviousWalk ==
    (walk # None /\ op.name \in {"start_search", "search_previous"}) =>
        LET w == Unwrap(walk)
            expected == MatchesNewestFirst(history.commands, w.pattern)
        IN expected # <<>> =>
             \A k \in 1..Len(w.rets) :
                 w.rets[k] = IF k <= Len(expected) THEN Some(expected[k]) ELSE None

\* C7 witness: a pattern in upper case matched two entries, both were
\* returned, and one more search_previous returned None.
C7_Witness ==
    /\ walk # None
    /\ op.name = "search_previous"
    /\ Unwrap(walk).pattern = <<"B">>
    /\ Len(MatchesNewestFirst(history.commands, Unwrap(walk).pattern)) = 2
    /\ Len(Unwrap(walk).rets) = 3
    /\ ret = None

\* C8: a search_next after the search_previous that returned the k-th match
\* returns the (k-1)-th match when k >= 2, and None when k = 1, no newer
\* match remaining (stated for the capacities >= 1, where the log is within
\* its capacity).
C8_SearchNextNewer ==
    (op.name = "search_next" /\ walk # None /\ Unwrap(walk).rets # <<>>
        /\ history.max_size >= 1) =>
        LET rets == Unwrap(walk).rets
            k == Len(rets)
        IN rets[k] # None =>
             ret = IF k >= 2 THEN rets[k - 1] ELSE None

\* C29: the log holds no empty or whitespace-only entry and no entry equal
\* to the entry just before it, whatever add_command, load_from_file and
\* clear calls were made (the file being one save_to_file wrote).
C29_NoBlankNoRepeat ==
    /\ \A i \in 1..Len(history.commands) : trim(history.commands[i]) # <<>>
    /\ \A i \in 2..Len(history.commands) :
           history.commands[i] # history.commands[i - 1]

\* C30: current_index is None or an index of commands, whatever add_command,
\* get_previous, get_next, load_from_file, clear and reset_navigation calls
\* were made.
C30_CursorValid ==
    history.current_index # None =>
        /\ Unwrap(history.current_index) >= 0
        /\ Unwrap(history.current_index) < Len(history.commands)

\* C30 witness: clear was called while the cursor stood on the second of two
\* entries.
C30_Witness ==
    /\ op.name = "clear"
    /\ Len(pre.commands) = 2
    /\ pre.current_index = Some(1)
    /\ history.current_index = None

\* C25: what search_previous and search_next return after start_search(p)
\* contains p, case ignored; they return None when no entry contains p
\* (stated for the capacities >= 1, where the log is within its capacity).
C25_SearchReturnsMatches ==
    (walk # None /\ op.name \in {"search_previous", "search_next"}
        /\ history.max_size >= 1 /\ ret # None) =>
        ContainsIgnoringCase(Unwrap(ret), Unwrap(walk).pattern)

(***************************************************************************)
(* The key decoder (input.rs). A byte is a number 0..255, a char of a Key  *)
(* is its byte; parse_key returns [ok |-> TRUE, key |-> a Key] or an Err.  *)
(***************************************************************************)
\* at most MaxFollow bytes follow the escape byte in the buffers of the model
MaxFollow == 4

Bytes == 0..255

Named(tag) == [tag |-> tag]

Char(c) == [tag |-> "Char", c |-> c]

Ctrl(c) == [tag |-> "Ctrl", c |-> c]

Alt(c) == [tag |-> "Alt", c |-> c]

F(n) == [tag |-> "F", n |-> n]

Unknown(bytes) == [tag |-> "Unknown", bytes |-> bytes]

Ok(k) == [ok |-> TRUE, key |-> k]

Err(msg) == [ok |-> FALSE, msg |-> msg]

\* InputReader::parse_escape_sequence: buf[1] is the escape byte
parse_escape_sequence(buf) ==
    LET rest == SubSeq(buf, 2, Len(buf)) IN
    IF Len(buf) = 1 THEN Ok(Named("Escape"))
    ELSE IF Len(rest) = 1 /\ rest[1] >= 32 /\ rest[1] < 127 THEN Ok(Alt(rest[1]))
    ELSE IF rest = <<91, 65>> THEN Ok(Named("ArrowUp"))
    ELSE IF rest = <<91, 66>> THEN Ok(Named("ArrowDown"))
    ELSE IF rest = <<91, 67>> THEN Ok(Named("ArrowRight"))
    ELSE IF rest = <<91, 68>> THEN Ok(Named("ArrowLeft"))
    ELSE IF rest = <<79, 80>> THEN Ok(F(1))
    ELSE IF rest = <<79, 81>> THEN Ok(F(2))
    ELSE IF rest = <<79, 82>> THEN Ok(F(3))
    ELSE IF rest = <<79, 83>> THEN Ok(F(4))
    ELSE IF rest = <<91, 49, 53, 126>> THEN Ok(F(5))
    ELSE IF rest = <<91, 49, 55, 126>> THEN Ok(F(6))
    ELSE IF rest = <<91, 49, 56, 126>> THEN Ok(F(7))
    ELSE IF rest = <<91, 49, 57, 126>> THEN Ok(F(8))
    ELSE IF rest = <<91, 50, 48, 126>> THEN Ok(F(9))
    ELSE IF rest = <<91, 50, 49, 126>> THEN Ok(F(10))
    ELSE IF rest = <<91, 50, 51, 126>> THEN Ok(F(11))
    ELSE IF rest = <<91, 50, 52, 126>> THEN Ok(F(12))
    ELSE IF rest = <<91, 72>> THEN Ok(Named("Home"))
    ELSE IF rest = <<91, 70>> THEN Ok(Named("End"))
    ELSE IF rest = <<91, 49, 126>> THEN Ok(Named("Home"))
    ELSE IF rest = <<91, 52, 126>> THEN Ok(Named("End"))
    ELSE IF rest = <<91, 53, 126>> THEN Ok(Named("PageUp"))
    ELSE IF rest = <<91, 54, 126>> THEN Ok(Named("PageDown"))
    ELSE IF rest = <<91, 51, 126>> THEN Ok(Named("Delete"))
    ELSE Ok(Unknown(buf))

\* parse_key with no upper limit on the regular characters
parse_key_unbounded_char(buf) ==
    IF buf = <<>> THEN Err("Empty buffer")
    ELSE LET b == buf[1] IN
         IF b \in 1..7 THEN Ok(Ctrl(b + 96))
         ELSE IF b = 8 THEN Ok(Named("Backspace"))
         ELSE IF b = 9 THEN Ok(Named("Tab"))
         ELSE IF b = 10 \/ b = 13 THEN Ok(Named("Enter"))
         ELSE IF b \in {11, 12} THEN Ok(Ctrl(b + 96))
         ELSE IF b \in 14..26 THEN Ok(Ctrl(b + 96))
         ELSE IF b = 27 THEN parse_escape_sequence(buf)
         ELSE IF b = 32 THEN Ok(Named("Space"))
         ELSE IF b = 127 THEN Ok(Named("Backspace"))
         ELSE IF b >= 32 THEN Ok(Char(b))
         ELSE Ok(Unknown(buf))

\* parse_key with byte 127 decoded as the Delete key
parse_key_del_is_delete(buf) ==
    IF buf = <<>> THEN Err("Empty buffer")
    ELSE LET b == buf[1] IN
         IF b \in 1..7 THEN Ok(Ctrl(b + 96))
         ELSE IF b = 8 THEN Ok(Named("Backspace"))
         ELSE IF b = 9 THEN Ok(Named("Tab"))
         ELSE IF b = 10 \/ b = 13 THEN Ok(Named("Enter"))
         ELSE IF b \in {11, 12} THEN Ok(Ctrl(b + 96))
         ELSE IF b \in 14..26 THEN Ok(Ctrl(b + 96))
         ELSE IF b = 27 THEN parse_escape_sequence(buf)
         ELSE IF b = 32 THEN Ok(Named("Space"))
         ELSE IF b = 127 THEN Ok(Named("Delete"))
         ELSE IF b >= 32 /\ b < 127 THEN Ok(Char(b))
         ELSE Ok(Unknown(buf))

\* InputReader::parse_key; byte b in 1..26 is Ctrl of the letter b + 96
parse_key(buf) ==
    IF buf = <<>> THEN Err("Empty buffer")
    ELSE LET b == buf[1] IN
         IF b \in 1..7 THEN Ok(Ctrl(b + 96))
         ELSE IF b = 8 THEN Ok(Named("Backspace"))
         ELSE IF b = 9 THEN Ok(Named("Tab"))
         ELSE IF b = 10 \/ b = 13 THEN Ok(Named("Enter"))
         ELSE IF b \in {11, 12} THEN Ok(Ctrl(b + 96))
         ELSE IF b \in 14..26 THEN Ok(Ctrl(b + 96))
         ELSE IF b = 27 THEN parse_escape_sequence(buf)
         ELSE IF b = 32 THEN Ok(Named("Space"))
         ELSE IF b = 127 THEN Ok(Named("Backspace"))
         ELSE IF b >= 32 /\ b < 127 THEN Ok(Char(b))
         ELSE Ok(Unknown(buf))

\* the bytes that follow "ESC [" in the longer buffers of the model: the
\* digits, "~", "A" and a second escape byte
CsiBytes == 48..57 \cup {126, 65, 27}

\* the buffers read_key can hand to parse_key: one byte, or the escape byte
\* and up to MaxFollow of the bytes read after it
KeyBuffers ==
    { <<b>> : b \in Bytes }
    \cup { <<27, b>> : b \in Bytes }
    \cup { <<27, a, b>> : a \in {79, 91, 65}, b \in Bytes }
    \cup { <<27, 91>> \o t : t \in UNION { [1..n -> CsiBytes] : n \in 2..(MaxFollow - 1) } }

\* read_key clears the buffer before it reads
ClearBuffer ==
    /\ key # None
    /\ buffer' = <<>>
    /\ key' = None
    /\ UNCHANGED <<histVars, readVars, edVars, rawVars>>

\* bytes are in the buffer, as read_key leaves them before it calls parse_key
PlaceBytes ==
    /\ buffer = <<>>
    /\ \E b \in KeyBuffers :
          /\ buffer' = b
          /\ key' = None
          /\ UNCHANGED <<histVars, readVars, edVars, rawVars>>

ParseKey ==
    /\ buffer # <<>>
    /\ key = None
    /\ key' = Some(parse_key(buffer))
    /\ UNCHANGED <<buffer, histVars, readVars, edVars, rawVars>>

NextKey ==
    \/ ClearBuffer
    \/ PlaceBytes
    \/ ParseKey

SpecKey == Init /\ [][NextKey]_vars

(***************************************************************************)
(* Properties of the key decoder.                                          *)
(***************************************************************************)
Entry(bytes, k) == [bytes |-> bytes, key |-> k]

\* "ESC [ n ~" for a number n written in decimal digits
CsiTilde(n) ==
    IF n < 10 THEN <<27, 91, 48 + n, 126>>
    ELSE <<27, 91, 48 + (n \div 10), 48 + (n % 10), 126>>

\* the numbers of "ESC [ n ~" for F5..F12
FunctionCodes == <<15, 17, 18, 19, 20, 21, 23, 24>>

\* the fixed table of the decoder: byte sequence and the key it stands for
KeyTable ==
    { Entry(<<b>>, Ctrl(b + 96)) : b \in (1..26) \ {8, 9, 10, 13} }
    \cup { Entry(<<8>>, Named("Backspace")), Entry(<<9>>, Named("Tab")),
           Entry(<<10>>, Named("Enter")), Entry(<<13>>, Named("Enter")),
           Entry(<<32>>, Named("Space")), Entry(<<127>>, Named("Backspace")),
           Entry(<<27>>, Named("Escape")) }
    \cup { Entry(<<b>>, Char(b)) : b \in 33..126 }
    \cup { Entry(<<27, b>>, Alt(b)) : b \in 32..126 }
    \cup { Entry(<<27, 91, 65>>, Named("ArrowUp")),
           Entry(<<27, 91, 66>>, Named("ArrowDown")),
           Entry(<<27, 91, 67>>, Named("ArrowRight")),
           Entry(<<27, 91, 68>>, Named("ArrowLeft")),
           Entry(<<27, 91, 72>>, Named("Home")),
           Entry(<<27, 91, 70>>, Named("End")),
           Entry(CsiTilde(1), Named("Home")),
           Entry(CsiTilde(4), Named("End")),
           Entry(CsiTilde(5), Named("PageUp")),
           Entry(CsiTilde(6), Named("PageDown")),
           Entry(CsiTilde(3), Named("Delete")) }
    \cup { Entry(<<27, 79, 79 + n>>, F(n)) : n \in 1..4 }
    \cup { Entry(CsiTilde(FunctionCodes[n - 4]), F(n)) : n \in 5..12 }

InKeyTable(bytes) == \E e \in KeyTable : e.bytes = bytes

\* C9: parse_key returns Ok for every buffer, and for a buffer that is no
\* entry of the table it returns Unknown carrying exactly the buffer.
C9_NeverFails ==
    key # None =>
        /\ Unwrap(key).ok
        /\ ~InKeyTable(buffer) => Unwrap(key) = Ok(Unknown(buffer))

\* C9 witness: an escape sequence of four bytes that is in no table entry
\* was parsed.
C9_Witness ==
    /\ key = Some(Ok(Unknown(buffer)))
    /\ Len(buffer) = 4
    /\ buffer[1] = 27

\* C10: for every buffer that is an entry of the table, parse_key returns the
\* key of that entry.
C10_AgreesWithTable ==
    key # None =>
        \A e \in KeyTable : e.bytes = buffer => Unwrap(key) = Ok(e.key)

\* C10 witness: "ESC [ 2 4 ~" was parsed, as F12.
C10_Witness ==
    /\ buffer = <<27, 91, 50, 52, 126>>
    /\ key = Some(Ok(F(12)))

(***************************************************************************)
(* InputReader::read_key over the bytes of standard input.  io::stdin()    *)
(* hands out the bytes that have arrived, in order; a read with none       *)
(* waiting blocks until some arrive or the stream ends.                    *)
(***************************************************************************)
\* keypresses are typed up to this many times
MaxTyped == 3

\* the keypresses of the model, each the bytes a terminal sends for it:
\* ArrowUp, the letter x, Escape, Enter
Keypresses == { <<27, 91, 65>>, <<120>>, <<27>>, <<13>> }

Min(a, b) == IF a < b THEN a ELSE b

\* the size of additional_bytes
ADDITIONAL_BYTES == 8

\* a key is pressed: the terminal delivers its bytes
TypeKey ==
    /\ ~closed
    /\ Len(typed) < MaxTyped
    /\ \E k \in Keypresses :
          /\ stdin' = stdin \o k
          /\ typed' = Append(typed, k)
    /\ UNCHANGED <<closed, consumed, rk, keyVars, histVars, edVars, rawVars>>

\* standard input reaches end of file
CloseStdin ==
    /\ ~closed
    /\ closed' = TRUE
    /\ UNCHANGED <<stdin, typed, consumed, rk, keyVars, histVars, edVars, rawVars>>

\* read_key up to the test for the escape byte: the buffer is cleared and
\* read_exact takes one byte (an error at end of file); any byte but ESC is
\* parsed at once
ReadFirst ==
    /\ rk = "idle"
    /\ stdin # <<>> \/ closed
    /\ Len(consumed) <= MaxTyped
    /\ IF stdin = <<>>
       THEN /\ buffer' = <<>>
            /\ key' = Some(Err("failed to fill whole buffer"))
            /\ consumed' = Append(consumed, <<>>)
            /\ UNCHANGED <<stdin, rk>>
       ELSE /\ buffer' = <<Head(stdin)>>
            /\ stdin' = Tail(stdin)
            /\ IF Head(stdin) = 27
               THEN /\ rk' = "more"
                    /\ key' = None
                    /\ UNCHANGED consumed
               ELSE /\ key' = Some(parse_key(buffer'))
                    /\ consumed' = Append(consumed, buffer')
                    /\ UNCHANGED rk
    /\ UNCHANGED <<closed, typed, histVars, edVars, rawVars>>

\* read_key after the escape byte: one read of up to 8 bytes takes what is
\* waiting (nothing at end of file), then the buffer is parsed
ReadMore ==
    /\ rk = "more"
    /\ stdin # <<>> \/ closed
    /\ LET n == Min(ADDITIONAL_BYTES, Len(stdin)) IN
          /\ buffer' = buffer \o SubSeq(stdin, 1, n)
          /\ stdin' = SubSeq(stdin, n + 1, Len(stdin))
    /\ key' = Some(parse_key(buffer'))
    /\ consumed' = Append(consumed, buffer')
    /\ rk' = "idle"
    /\ UNCHANGED <<closed, typed, histVars, edVars, rawVars>>

NextRead ==
    \/ TypeKey
    \/ CloseStdin
    \/ ReadFirst
    \/ ReadMore

SpecRead == Init /\ [][NextRead]_vars

(***************************************************************************)
(* Properties of read_key.                                                 *)
(***************************************************************************)
\* C11: each read_key call that returns a key took from standard input
\* exactly the bytes of one keypress, the i-th call those of the i-th
\* keypress, so that no byte of a following keypress is swallowed.  Stated
\* for the runs in which every keypress is recognisable from its bytes
\* alone (no lone Escape was typed).
C11_OneKeypressPerRead ==
    (\A j \in 1..Len(typed) : typed[j] # <<27>>)
        => \A i \in 1..Len(consumed) :
              consumed[i] # <<>> => (i <= Len(typed) /\ consumed[i] = typed[i])

\* read_key with the scheduling of the code: a read_exact or read that has
\* bytes waiting, or the end of the stream, returns; nothing makes the user
\* press a key or the stream end
SpecReadLive ==
    Init /\ [][NextRead]_vars /\ WF_vars(ReadFirst) /\ WF_vars(ReadMore)

\* C28: once read_key has read an escape byte and nothing is waiting on
\* standard input, either a further byte arrives or read_key returns the
\* Escape key.  Stated for the states in which the user can still press a
\* key, so that a wait that never ends is the wait of the code.
C28_LoneEscapeReturns ==
    (rk = "more" /\ stdin = <<>> /\ Len(typed) < MaxTyped)
        ~> (stdin # <<>> \/ (rk = "idle" /\ key = Some(Ok(Named("Escape")))))

(***************************************************************************)
(* String, as the line editor uses it.  The characters of a String are     *)
(* stored as UTF-8 and every index the editor passes is a byte offset: a   *)
(* method given an offset inside a character panics.  Each operator        *)
(* returns [s, panic].                                                     *)
(***************************************************************************)
\* char::len_utf8, on the characters of the model ("é" is U+00E9)
len_utf8(c) == IF c = "é" THEN 2 ELSE 1

RECURSIVE len(_)
\* String::len, in bytes
len(s) == IF s = <<>> THEN 0 ELSE len_utf8(Head(s)) + len(Tail(s))

\* how many characters of s lie before byte offset idx, or -1 when idx is
\* inside a character or past the end
chars_before(s, idx) ==
    IF \E k \in 0..Len(s) : len(SubSeq(s, 1, k)) = idx
    THEN CHOOSE k \in 0..Len(s) : len(SubSeq(s, 1, k)) = idx
    ELSE -1

Done(s) == [s |-> s, panic |-> FALSE]

Panic(s) == [s |-> s, panic |-> TRUE]

\* String::insert(idx, ch)
insert(s, idx, ch) ==
    LET k == chars_before(s, idx) IN
    IF k < 0 THEN Panic(s)
    ELSE Done(SubSeq(s, 1, k) \o <<ch>> \o SubSeq(s, k + 1, Len(s)))

\* String::insert_str(idx, string)
insert_str(s, idx, string) ==
    LET k == chars_before(s, idx) IN
    IF k < 0 THEN Panic(s)
    ELSE Done(SubSeq(s, 1, k) \o string \o SubSeq(s, k + 1, Len(s)))

\* String::remove(idx): the character that starts at idx
remove(s, idx) ==
    LET k == chars_before(s, idx) IN
    IF k < 0 \/ k >= Len(s) THEN Panic(s)
    ELSE Done(SubSeq(s, 1, k) \o SubSeq(s, k + 2, Len(s)))

\* String::truncate(new_len)
truncate(s, new_len) ==
    IF new_len > len(s) THEN Done(s)
    ELSE LET k == chars_before(s, new_len) IN
         IF k < 0 THEN Panic(s) ELSE Done(SubSeq(s, 1, k))

\* String::drain(start..end), the iterator dropped at once
drain(s, start, end) ==
    LET a == chars_before(s, start)
        b == chars_before(s, end)
    IN  IF start > end \/ a < 0 \/ b < 0 THEN Panic(s)
        ELSE Done(SubSeq(s, 1, a) \o SubSeq(s, b + 1, Len(s)))

\* str::ends_with(char)
ends_with(s, ch) == s # <<>> /\ s[Len(s)] = ch

\* char::from(u8) for the bytes parse_key puts in Key::Char, on the
\* characters of the model
char_from ==
    [b \in {97, 98, 103, 40, 41, 91, 93, 123, 125, 92} |->
        CASE b = 97 -> "a" [] b = 98 -> "b" [] b = 103 -> "g"
          [] b = 40 -> "(" [] b = 41 -> ")" [] b = 91 -> "[" [] b = 93 -> "]"
          [] b = 123 -> "{" [] b = 125 -> "}" [] b = 92 -> "\\"]

(***************************************************************************)
(* CommandHistory::find_matching, which the reverse search of the editor   *)
(* calls.                                                                  *)
(***************************************************************************)
\* the limit on the matches find_matching returns
MATCH_LIMIT == 20

RECURSIVE find_matching_from(_, _, _, _)
\* the loop of find_matching: i entries from the newest were visited
find_matching_from(commands, pattern_lower, i, matches) ==
    IF i >= Len(commands) \/ Len(matches) >= MATCH_LIMIT THEN matches
    ELSE LET command == commands[Len(commands) - i] IN
         find_matching_from(commands, pattern_lower, i + 1,
            IF /\ contains(to_lowercase(command), pattern_lower)
               /\ \A j \in 1..Len(matches) : matches[j] # command
            THEN Append(matches, command)
            ELSE matches)

\* CommandHistory::find_matching
find_matching(h, pattern) ==
    IF pattern = <<>> THEN <<>>
    ELSE find_matching_from(h.commands, to_lowercase(pattern), 0, <<>>)

(***************************************************************************)
(* The LineEditor (src/src/terminal/editor.rs).  A handler is an operator  *)
(* on self = [current_line, cursor_pos, history, panic] and returns the    *)
(* same fields; panic says the handler panicked, the fields are then as    *)
(* the unwinding left them.  What is printed is not modelled, and neither  *)
(* are suggestions and suggestion_index, which the code only ever clears.  *)
(***************************************************************************)
\* the capacity LineEditor::new gives its history
HISTORY_SIZE == 1000

Self(line, pos, h) ==
    [current_line |-> line, cursor_pos |-> pos, history |-> h, panic |-> FALSE]

\* the fields after a String method returned r
WithLine(self, r) == [self EXCEPT !.current_line = r.s, !.panic = r.panic]

\* insert_char written without the cursor advance
insert_char_cursor_stays(self, c) ==
    WithLine(self, insert(self.current_line, self.cursor_pos, c))

\* LineEditor::insert_char
insert_char(self, c) ==
    LET r == insert(self.current_line, self.cursor_pos, c) IN
    IF r.panic THEN WithLine(self, r)
    ELSE [WithLine(self, r) EXCEPT !.cursor_pos = self.cursor_pos + 1]

\* LineEditor::handle_backspace
handle_backspace(self) ==
    IF self.cursor_pos > 0
    THEN LET moved == [self EXCEPT !.cursor_pos = self.cursor_pos - 1] IN
         WithLine(moved, remove(moved.current_line, moved.cursor_pos))
    ELSE self

\* LineEditor::delete_char_at_cursor
delete_char_at_cursor(self) ==
    IF self.cursor_pos < len(self.current_line)
    THEN WithLine(self, remove(self.current_line, self.cursor_pos))
    ELSE self

\* LineEditor::move_cursor_left
move_cursor_left(self) ==
    IF self.cursor_pos > 0
    THEN [self EXCEPT !.cursor_pos = self.cursor_pos - 1]
    ELSE self

\* LineEditor::move_cursor_right
move_cursor_right(self) ==
    IF self.cursor_pos < len(self.current_line)
    THEN [self EXCEPT !.cursor_pos = self.cursor_pos + 1]
    ELSE self

\* LineEditor::move_cursor_to_start
move_cursor_to_start(self) ==
    IF self.cursor_pos > 0 THEN [self EXCEPT !.cursor_pos = 0] ELSE self

\* LineEditor::move_cursor_to_end
move_cursor_to_end(self) ==
    IF self.cursor_pos < len(self.current_line)
    THEN [self EXCEPT !.cursor_pos = len(self.current_line)]
    ELSE self

\* LineEditor::handle_history_up
handle_history_up(self) ==
    LET r == get_previous(self.history) IN
    IF r.ret # None
    THEN [self EXCEPT !.history = r.h,
                      !.current_line = Unwrap(r.ret),
                      !.cursor_pos = len(Unwrap(r.ret)),
                      !.panic = r.panic]
    ELSE [self EXCEPT !.history = r.h, !.panic = r.panic]

\* handle_history_down without the arm for None
handle_history_down_keeps_line(self) ==
    LET r == get_next(self.history) IN
    IF r.ret # None
    THEN [self EXCEPT !.history = r.h,
                      !.current_line = Unwrap(r.ret),
                      !.cursor_pos = len(Unwrap(r.ret)),
                      !.panic = r.panic]
    ELSE [self EXCEPT !.history = r.h, !.panic = r.panic]

\* LineEditor::handle_history_down
handle_history_down(self) ==
    LET r == get_next(self.history) IN
    IF r.panic THEN [self EXCEPT !.panic = TRUE]
    ELSE IF r.ret # None
    THEN [self EXCEPT !.history = r.h,
                      !.current_line = Unwrap(r.ret),
                      !.cursor_pos = len(Unwrap(r.ret))]
    ELSE [self EXCEPT !.history = r.h, !.current_line = <<>>, !.cursor_pos = 0]

\* LineEditor::kill_to_end
kill_to_end(self) == WithLine(self, truncate(self.current_line, self.cursor_pos))

\* kill_to_start written without the cursor reset
kill_to_start_cursor_stays(self) ==
    WithLine(self, drain(self.current_line, 0, self.cursor_pos))

\* LineEditor::kill_to_start
kill_to_start(self) ==
    LET r == drain(self.current_line, 0, self.cursor_pos) IN
    IF r.panic THEN WithLine(self, r)
    ELSE [WithLine(self, r) EXCEPT !.cursor_pos = 0]

RECURSIVE skip_back(_, _, _)
\* the loop "while new_pos > 0 && chars[new_pos - 1].is_whitespace() == ws
\* { new_pos -= 1 }": where it stops, or -1 when chars[new_pos - 1] is out
\* of bounds (chars holds characters, new_pos counts bytes)
skip_back(chars, new_pos, ws) ==
    IF new_pos <= 0 THEN new_pos
    ELSE IF new_pos - 1 >= Len(chars) THEN -1
    ELSE IF is_whitespace(chars[new_pos]) = ws THEN skip_back(chars, new_pos - 1, ws)
    ELSE new_pos

\* LineEditor::kill_word_backwards
kill_word_backwards(self) ==
    IF self.cursor_pos = 0 THEN self
    ELSE LET chars == self.current_line
             spaces == skip_back(chars, self.cursor_pos, TRUE)
             word == IF spaces < 0 THEN -1 ELSE skip_back(chars, spaces, FALSE)
         IN  IF word < 0 THEN [self EXCEPT !.panic = TRUE]
             ELSE LET r == drain(self.current_line, word, self.cursor_pos) IN
                  IF r.panic THEN WithLine(self, r)
                  ELSE [WithLine(self, r) EXCEPT !.cursor_pos = word]

\* LineEditor::get_current_word: [word, panic]
get_current_word(self) ==
    LET chars == self.current_line
        start == skip_back(chars, self.cursor_pos, FALSE)
    IN  IF start < 0 \/ self.cursor_pos > Len(chars)
        THEN [word |-> <<>>, panic |-> TRUE]
        ELSE [word |-> SubSeq(chars, start + 1, self.cursor_pos), panic |-> FALSE]

\* LineEditor::complete_current_word
complete_current_word(self, completion) ==
    LET current_word == get_current_word(self) IN
    IF current_word.panic THEN [self EXCEPT !.panic = TRUE]
    ELSE LET word_start == self.cursor_pos - len(current_word.word)
             drained == drain(self.current_line, word_start, self.cursor_pos)
         IN  IF drained.panic THEN WithLine(self, drained)
             ELSE LET r == insert_str(drained.s, word_start, completion) IN
                  IF r.panic THEN WithLine(self, r)
                  ELSE [WithLine(self, r) EXCEPT
                           !.cursor_pos = word_start + len(completion)]

\* the callback given to with_completion_callback in the model: one
\* candidate for the prefix "a", two for "aa", none for any other prefix
callback(prefix) ==
    IF prefix = <<"a">> THEN << <<"a", "a">> >>
    ELSE IF prefix = <<"a", "a">> THEN << <<"a", "a">>, <<"a", "a", "a">> >>
    ELSE <<>>

\* LineEditor::handle_tab_completion; cb is self.completion_callback, None
\* or Some("callback")
handle_tab_completion(self, cb) ==
    IF cb = None THEN self
    ELSE LET prefix == get_current_word(self) IN
         IF prefix.panic THEN [self EXCEPT !.panic = TRUE]
         ELSE IF prefix.word = <<>> THEN self
         ELSE LET completions == callback(prefix.word) IN
              IF Len(completions) = 1
              THEN complete_current_word(self, completions[1])
              ELSE self

\* how many times the character ch occurs in s
count(s, ch) == Cardinality({ i \in 1..Len(s) : s[i] = ch })

\* LineEditor::should_continue_multiline
should_continue_multiline(self) ==
    \/ ends_with(trim_end(self.current_line), "\\")
    \/ count(self.current_line, "(") - count(self.current_line, ")") > 0
    \/ count(self.current_line, "{") - count(self.current_line, "}") > 0
    \/ count(self.current_line, "[") - count(self.current_line, "]") > 0

\* LineEditor::handle_multiline_continue
handle_multiline_continue(self) ==
    [self EXCEPT !.current_line = Append(self.current_line, "\n")]

\* LineEditor::find_in_history
find_in_history(self, term) ==
    IF term = <<>> THEN None
    ELSE LET matches == find_matching(self.history, term) IN
         IF matches = <<>> THEN None ELSE Some(matches[1])

(***************************************************************************)
(* read_line as a state machine: one action for each arm of its match, one *)
(* for each arm of the match in handle_reverse_search, and the calls that  *)
(* set up an editor.                                                       *)
(***************************************************************************)
\* a line grows by typing up to this many bytes
MaxLine == 2

\* the state of the history that the editor does not touch directly
histGhosts == <<ret, op, prev_op, pre, accepted, walk, file, saved, fresh>>

\* Result<String, _> of read_line
OkLine(line) == [ok |-> TRUE, line |-> line]

\* the fields of the editor the handlers work on
SelfNow == Self(current_line, cursor_pos, history)

\* LineEditor::new
LineEditorNew ==
    /\ mode = "None"
    /\ mode' = "Idle"
    /\ history' = new(HISTORY_SIZE)
    /\ UNCHANGED <<current_line, cursor_pos, multiline_mode, completion_callback,
                   search_term, line_ret, last_key, ed_pre, hist0, inserted, panicked, histGhosts, keyVars, readVars, rawVars>>

\* the contents of the history files given to with_history_file: the two
\* lines "é" and "a a"
EditorFiles == { <<"é", "\n", "a", " ", "a">> }

\* the content of the history file given to an editor whose reverse search
\* is exercised: the two lines "a" and "ab"
SearchFiles == { <<"a", "\n", "a", "b">> }

\* LineEditor::with_history_file, on a file that exists
WithHistoryFile(files) ==
    /\ mode = "Idle"
    /\ history.commands = <<>>
    /\ \E f \in files : history' = load_from_file(history, Some(f))
    /\ UNCHANGED <<current_line, cursor_pos, multiline_mode, completion_callback,
                   mode, search_term, line_ret, last_key, ed_pre, hist0, inserted, panicked, histGhosts, keyVars, readVars, rawVars>>

\* LineEditor::with_completion_callback
WithCompletionCallback ==
    /\ mode = "Idle"
    /\ completion_callback = None
    /\ completion_callback' = Some("callback")
    /\ UNCHANGED <<current_line, cursor_pos, multiline_mode, mode, search_term,
                   line_ret, last_key, ed_pre, hist0, inserted, history,
                   panicked, histGhosts, keyVars, readVars, rawVars>>

\* LineEditor::enable_multiline and disable_multiline, before read_line
SetMultiline ==
    /\ mode = "Idle"
    /\ multiline_mode' = ~multiline_mode
    /\ UNCHANGED <<current_line, cursor_pos, completion_callback, mode, search_term,
                   line_ret, last_key, ed_pre, hist0, inserted, history,
                   panicked, histGhosts, keyVars, readVars, rawVars>>

\* read_line up to its loop, the first time it is called
ReadLineStart ==
    /\ mode = "Idle"
    /\ ~panicked
    /\ current_line' = <<>>
    /\ cursor_pos' = 0
    /\ history' = reset_navigation(history)
    /\ hist0' = history.commands
    /\ mode' = "Reading"
    /\ line_ret' = None
    /\ last_key' = None
    /\ ed_pre' = EdState
    /\ inserted' = Some(<<>>)
    /\ UNCHANGED <<multiline_mode, completion_callback, search_term, panicked,
                   histGhosts, keyVars, readVars, rawVars>>

\* read_key returned k in the loop m, the arm for k left the fields r and the
\* loop goes on at m2 with the search term term; lr is what read_line has
\* returned
Step(m, k, r, m2, term, lr) ==
    /\ mode = m
    /\ ~panicked
    /\ last_key' = Some(k)
    /\ ed_pre' = EdState
    /\ current_line' = r.current_line
    /\ cursor_pos' = r.cursor_pos
    /\ history' = r.history
    /\ panicked' = r.panic
    /\ mode' = IF r.panic THEN m ELSE m2
    /\ search_term' = term
    /\ line_ret' = lr
    /\ inserted' = IF inserted # None /\ k.tag \in {"Char", "Space"} /\ m = "Reading"
                   THEN Some(Append(Unwrap(inserted),
                                    IF k.tag = "Space" THEN " " ELSE char_from[k.c]))
                   ELSE None
    /\ UNCHANGED <<multiline_mode, completion_callback, hist0, histGhosts,
                   keyVars, readVars, rawVars>>

\* an arm of read_line after which the loop goes on
Handled(k, r) == Step("Reading", k, r, "Reading", search_term, line_ret)

\* the arm Key::Ctrl('c') with the line added to the history before it is
\* cleared
interrupt_adds(self) ==
    [self EXCEPT !.current_line = <<>>,
                 !.history = add_command(self.history, self.current_line)]

\* the arm Key::Ctrl('c') of read_line
interrupt(self) == [self EXCEPT !.current_line = <<>>]

\* should_continue_multiline with the brackets counted after the last newline
\* only
should_continue_last_line(self) ==
    LET s == self.current_line
        starts == { i \in 1..Len(s) : s[i] = "\n" }
        from == IF starts = {} THEN 1
                ELSE 1 + CHOOSE i \in starts : \A j \in starts : j <= i
        last == SubSeq(s, from, Len(s))
    IN  \/ ends_with(trim_end(s), "\\")
        \/ count(last, "(") - count(last, ")") > 0
        \/ count(last, "{") - count(last, "}") > 0
        \/ count(last, "[") - count(last, "]") > 0

\* the test of the arm Key::Enter with should_continue_last_line
continues_last_line(self, multiline) == multiline /\ should_continue_last_line(self)

\* the test of the arm Key::Enter of read_line
continues(self, multiline) == multiline /\ should_continue_multiline(self)

\* read_line after its loop with the line trimmed before it is added
finish_trimmed(self) ==
    LET result == self.current_line IN
    IF trim(result) # <<>>
    THEN [self EXCEPT !.history = add_command(self.history, trim(result))]
    ELSE self

\* read_line after its loop: the line is added to the history and returned
finish(self) ==
    LET result == self.current_line IN
    IF trim(result) # <<>>
    THEN [self EXCEPT !.history = add_command(self.history, result)]
    ELSE self

KeyEnter ==
    IF continues(SelfNow, multiline_mode)
    THEN /\ len(current_line) < MaxLine + 1
         /\ Handled(Named("Enter"), handle_multiline_continue(SelfNow))
    ELSE Step("Reading", Named("Enter"), finish(SelfNow), "Committed", search_term,
              Some(OkLine(current_line)))

KeyCtrlC ==
    Step("Reading", Ctrl(99), interrupt(SelfNow), "Interrupted",
         search_term, Some(Err("Interrupted")))

KeyCtrlD ==
    IF current_line = <<>>
    THEN Step("Reading", Ctrl(100), SelfNow, "EndOfInput", search_term,
              Some(Err("EOF")))
    ELSE Handled(Ctrl(100), delete_char_at_cursor(SelfNow))

KeyBackspace == Handled(Named("Backspace"), handle_backspace(SelfNow))

KeyDelete == Handled(Named("Delete"), delete_char_at_cursor(SelfNow))

KeyArrowLeft == Handled(Named("ArrowLeft"), move_cursor_left(SelfNow))

KeyArrowRight == Handled(Named("ArrowRight"), move_cursor_right(SelfNow))

KeyArrowUp == Handled(Named("ArrowUp"), handle_history_up(SelfNow))

KeyArrowDown == Handled(Named("ArrowDown"), handle_history_down(SelfNow))

KeyHome ==
    \E k \in {Named("Home"), Ctrl(97)} : Handled(k, move_cursor_to_start(SelfNow))

KeyEnd ==
    \E k \in {Named("End"), Ctrl(101)} : Handled(k, move_cursor_to_end(SelfNow))

KeyCtrlK == Handled(Ctrl(107), kill_to_end(SelfNow))

KeyCtrlU == Handled(Ctrl(117), kill_to_start(SelfNow))

KeyCtrlW == Handled(Ctrl(119), kill_word_backwards(SelfNow))

\* clear_screen_and_redraw only prints
KeyCtrlL == Handled(Ctrl(108), SelfNow)

KeyTab ==
    /\ len(current_line) <= MaxLine
    /\ Handled(Named("Tab"), handle_tab_completion(SelfNow, completion_callback))

\* handle_reverse_search up to its loop
KeyCtrlR == Step("Reading", Ctrl(114), SelfNow, "Searching", <<>>, line_ret)

\* Key::Char(c), for the bytes in codes
KeyChar(codes) ==
    /\ len(current_line) < MaxLine
    /\ \E c \in codes : Handled(Char(c), insert_char(SelfNow, char_from[c]))

KeySpace ==
    /\ len(current_line) < MaxLine
    /\ Handled(Named("Space"), insert_char(SelfNow, " "))

\* keys that fall to the arm "_ => {}" of read_line
OtherKeys == { Named("Escape"), Unknown(<<200>>) }

KeyOther == \E k \in OtherKeys : Handled(k, SelfNow)

\* read_key fails in either loop and the error is passed on
ReadKeyFails ==
    /\ mode \in {"Reading", "Searching"}
    /\ ~panicked
    /\ mode' = "Failed"
    /\ line_ret' = Some(Err("failed to fill whole buffer"))
    /\ last_key' = None
    /\ ed_pre' = EdState
    /\ inserted' = None
    /\ UNCHANGED <<current_line, cursor_pos, multiline_mode, completion_callback,
                   search_term, hist0, history, panicked, histGhosts, keyVars,
                   readVars, rawVars>>

\* an arm of handle_reverse_search after which its loop goes on
Searched(k, r, term) == Step("Searching", k, r, "Searching", term, line_ret)

SearchChar(codes) ==
    /\ Len(search_term) < MaxLine
    /\ \E c \in codes : Searched(Char(c), SelfNow, Append(search_term, char_from[c]))

SearchBackspace ==
    Searched(Named("Backspace"), SelfNow,
             IF search_term # <<>>
             THEN SubSeq(search_term, 1, Len(search_term) - 1)
             ELSE search_term)

SearchCtrlR ==
    LET result == find_in_history(SelfNow, search_term) IN
    Searched(Ctrl(114),
             IF result # None
             THEN [SelfNow EXCEPT !.current_line = Unwrap(result),
                                  !.cursor_pos = len(Unwrap(result))]
             ELSE SelfNow,
             search_term)

\* Enter, Ctrl-C and Escape end the search; search_term goes out of scope
SearchExit ==
    \E k \in {Named("Enter"), Ctrl(99), Named("Escape")} :
        Step("Searching", k, SelfNow, "Reading", <<>>, line_ret)

\* keys that fall to the arm "_ => {}" of handle_reverse_search
SearchOtherKeys == { Named("Space"), Named("ArrowUp") }

SearchOther == \E k \in SearchOtherKeys : Searched(k, SelfNow, search_term)

\* the letter a
EditChars == {97}

NextEdit ==
    \/ LineEditorNew
    \/ WithHistoryFile(EditorFiles)
    \/ WithCompletionCallback
    \/ ReadLineStart
    \/ KeyEnter
    \/ KeyCtrlC
    \/ KeyCtrlD
    \/ KeyBackspace
    \/ KeyDelete
    \/ KeyArrowLeft
    \/ KeyArrowRight
    \/ KeyArrowUp
    \/ KeyArrowDown
    \/ KeyHome
    \/ KeyEnd
    \/ KeyCtrlK
    \/ KeyCtrlU
    \/ KeyCtrlW
    \/ KeyCtrlL
    \/ KeyTab
    \/ KeyCtrlR
    \/ KeyChar(EditChars)
    \/ KeySpace
    \/ KeyOther
    \/ ReadKeyFails
    \/ SearchChar(EditChars)
    \/ SearchBackspace
    \/ SearchCtrlR
    \/ SearchExit
    \/ SearchOther

SpecEdit == Init /\ [][NextEdit]_vars

\* the letters a and b
SearchChars == {97, 98}

\* read_line with the reverse search: read_line up to Ctrl-R, then every arm
\* of handle_reverse_search
NextReverse ==
    \/ LineEditorNew
    \/ WithHistoryFile(SearchFiles)
    \/ ReadLineStart
    \/ KeyArrowUp
    \/ KeyCtrlR
    \/ SearchChar(SearchChars)
    \/ SearchBackspace
    \/ SearchCtrlR
    \/ SearchExit
    \/ SearchOther
    \/ KeyEnter

SpecReverse == Init /\ [][NextReverse]_vars

\* the brackets, the backslash and the letter a
MultilineChars == {40, 41, 91, 93, 123, 125, 92, 97}

\* read_line with multiline mode on or off, the keys typed being
\* characters, Space and Enter
NextMultiline ==
    \/ LineEditorNew
    \/ SetMultiline
    \/ ReadLineStart
    \/ KeyEnter
    \/ KeyChar(MultilineChars)
    \/ KeySpace

SpecMultiline == Init /\ [][NextMultiline]_vars

(***************************************************************************)
(* The RawTerminal (src/src/terminal/raw.rs), as built for unix.  tcgetattr *)
(* and tcsetattr work on the mode of the terminal device, tty, and either   *)
(* can fail.  A method is an operator on self = [is_raw, original_termios]  *)
(* and the mode of the terminal; it returns the three and its result.       *)
(***************************************************************************)
RawResult(raw, snapshot, t, r) ==
    [is_raw |-> raw, original_termios |-> snapshot, tty |-> t, ret |-> r]

\* the termios enable_raw_mode sets: ICANON and ECHO off, VMIN 1, VTIME 0
raw_termios(termios) == Termios(termios.c_lflag \ {"ICANON", "ECHO"}, 1, 0)

\* enable_raw_mode without the test of is_raw
enable_raw_mode_again(self, t, get_ok, set_ok) ==
    IF ~get_ok THEN RawResult(self.is_raw, self.original_termios, t, "Err")
    ELSE IF ~set_ok THEN RawResult(self.is_raw, Some(t), t, "Err")
    ELSE RawResult(TRUE, Some(t), raw_termios(t), "Ok")

\* RawTerminal::enable_raw_mode; get_ok and set_ok say whether tcgetattr and
\* tcsetattr succeed
enable_raw_mode(self, t, get_ok, set_ok) ==
    IF self.is_raw THEN RawResult(self.is_raw, self.original_termios, t, "Ok")
    ELSE IF ~get_ok THEN RawResult(self.is_raw, self.original_termios, t, "Err")
    ELSE IF ~set_ok THEN RawResult(self.is_raw, Some(t), t, "Err")
    ELSE RawResult(TRUE, Some(t), raw_termios(t), "Ok")

\* RawTerminal::disable_raw_mode
disable_raw_mode(self, t, set_ok) ==
    IF ~self.is_raw THEN RawResult(self.is_raw, self.original_termios, t, "Ok")
    ELSE IF self.original_termios # None /\ ~set_ok
    THEN RawResult(self.is_raw, self.original_termios, t, "Err")
    ELSE RawResult(FALSE, self.original_termios,
                   IF self.original_termios # None
                   THEN Unwrap(self.original_termios) ELSE t,
                   "Ok")

\* the modes another program leaves the terminal in
TtyModes ==
    { Cooked, Termios({"ICANON", "ISIG"}, 1, 0), Termios({"ECHO"}, 4, 2),
      Termios({"ISIG"}, 0, 5) }

\* the method name returned r
RawReturned(name, r) ==
    /\ is_raw' = r.is_raw
    /\ original_termios' = r.original_termios
    /\ tty' = r.tty
    /\ raw_op' = [name |-> name, ret |-> r.ret]
    /\ raw_pre' = RawState
    /\ UNCHANGED <<other, histVars, keyVars, readVars, edVars>>

EnableRawMode ==
    \E get_ok, set_ok \in BOOLEAN :
        LET r == enable_raw_mode(RawState, tty, get_ok, set_ok) IN
        /\ RawReturned("enable_raw_mode", r)
        /\ captured' = IF ~is_raw /\ r.ret = "Ok" THEN Some(tty) ELSE captured

DisableRawMode ==
    \E set_ok \in BOOLEAN :
        /\ RawReturned("disable_raw_mode", disable_raw_mode(RawState, tty, set_ok))
        /\ UNCHANGED captured

\* another program sets the mode of the terminal (stty, a child process)
SetTty ==
    /\ \E t \in TtyModes : tty' = t /\ t # tty
    /\ raw_op' = [name |-> "stty", ret |-> "Ok"]
    /\ raw_pre' = RawState
    /\ UNCHANGED <<is_raw, original_termios, captured, other, histVars, keyVars,
                   readVars, edVars>>

NextRaw ==
    \/ EnableRawMode
    \/ DisableRawMode
    \/ SetTty

SpecRaw == Init /\ [][NextRaw]_vars

\* a method of the second RawTerminal returned r; the value is gone after
\* its drop
OtherReturned(name, r, dropped) ==
    /\ other' = IF dropped THEN None
                ELSE Some([is_raw |-> r.is_raw, original_termios |-> r.original_termios])
    /\ tty' = r.tty
    /\ raw_op' = [name |-> name, ret |-> r.ret]
    /\ raw_pre' = RawState
    /\ UNCHANGED <<is_raw, original_termios, captured, histVars, keyVars,
                   readVars, edVars>>

\* RawTerminal::new, a second time
RawTerminalNew ==
    /\ other = None
    /\ OtherReturned("other.new", RawResult(FALSE, None, tty, "Ok"), FALSE)

EnableOther ==
    /\ other # None
    /\ \E get_ok, set_ok \in BOOLEAN :
          OtherReturned("other.enable_raw_mode",
                        enable_raw_mode(Unwrap(other), tty, get_ok, set_ok), FALSE)

DisableOther ==
    /\ other # None
    /\ \E set_ok \in BOOLEAN :
          OtherReturned("other.disable_raw_mode",
                        disable_raw_mode(Unwrap(other), tty, set_ok), FALSE)

\* Drop for RawTerminal: disable_raw_mode, its result ignored
DropOther ==
    /\ other # None
    /\ \E set_ok \in BOOLEAN :
          OtherReturned("other.drop",
                        disable_raw_mode(Unwrap(other), tty, set_ok), TRUE)

\* two RawTerminal values on the one terminal
NextSessions ==
    \/ EnableRawMode
    \/ DisableRawMode
    \/ RawTerminalNew
    \/ EnableOther
    \/ DisableOther
    \/ DropOther

SpecSessions == Init /\ [][NextSessions]_vars

C13_TypedLine ==
    (mode = "Reading" /\ inserted # None)
        => /\ current_line = Unwrap(inserted)
           /\ cursor_pos = len(current_line)

\* C13 witness: the letter a and a space were typed, in this order.
C13_Witness ==
    /\ mode = "Reading"
    /\ inserted = Some(<<"a", " ">>)
    /\ current_line = <<"a", " ">>

\* the line s without its k-th character
WithoutChar(s, k) == SubSeq(s, 1, k - 1) \o SubSeq(s, k + 1, Len(s))

\* the key k was handled in the loop of read_line
After(k) == last_key = Some(k) /\ ed_pre.mode = "Reading"

\* how many characters of the line were before the cursor when the last key
\* was read (-1: the cursor was inside a character)
CharsBeforeCursor == chars_before(ed_pre.current_line, ed_pre.cursor_pos)

\* the last key changed neither the line nor the cursor
LineAndCursorKept ==
    /\ ~panicked
    /\ current_line = ed_pre.current_line
    /\ cursor_pos = ed_pre.cursor_pos

\* Delete, or Ctrl-D on a line that is not empty, did what the spec says:
\* nothing with the cursor at the end, else the character at the cursor is
\* removed and the cursor stays
DeletedAtCursor ==
    IF ed_pre.cursor_pos = len(ed_pre.current_line) THEN LineAndCursorKept
    ELSE /\ ~panicked
         /\ CharsBeforeCursor >= 0
                => /\ current_line = WithoutChar(ed_pre.current_line, CharsBeforeCursor + 1)
                   /\ cursor_pos = ed_pre.cursor_pos

\* C14: Backspace at offset 0 and Delete at the end of the line change
\* nothing; otherwise Backspace removes the character before the cursor and
\* leaves the cursor where that character began, and Delete removes the
\* character at the cursor and leaves the cursor in place.
C14_DeleteAtBoundary ==
    /\ After(Named("Backspace")) =>
          IF ed_pre.cursor_pos = 0 THEN LineAndCursorKept
          ELSE /\ ~panicked
               /\ CharsBeforeCursor >= 1
                     => /\ current_line = WithoutChar(ed_pre.current_line, CharsBeforeCursor)
                        /\ cursor_pos = len(SubSeq(current_line, 1, CharsBeforeCursor - 1))
    /\ After(Named("Delete")) => DeletedAtCursor

RECURSIVE BackOver(_, _, _)
\* from the k-th character of s back over the characters that are
\* whitespace (ws = TRUE) or are not (ws = FALSE): how many characters stay
BackOver(s, k, ws) ==
    IF k > 0 /\ is_whitespace(s[k]) = ws THEN BackOver(s, k - 1, ws) ELSE k

\* how many characters stay before the span Ctrl-W is to delete
WordStart ==
    BackOver(ed_pre.current_line,
             BackOver(ed_pre.current_line, CharsBeforeCursor, TRUE), FALSE)

\* C15: Ctrl-W deletes the span from the cursor back over whitespace and
\* then over non-whitespace, puts the cursor at the start of that span and
\* leaves the characters before and after the span as they were; at
\* offset 0 it changes nothing.
C15_KillWordBackwards ==
    After(Ctrl(119)) =>
        IF ed_pre.cursor_pos = 0 THEN LineAndCursorKept
        ELSE /\ ~panicked
             /\ CharsBeforeCursor >= 0
                   => /\ current_line =
                            SubSeq(ed_pre.current_line, 1, WordStart)
                            \o SubSeq(ed_pre.current_line, CharsBeforeCursor + 1,
                                      Len(ed_pre.current_line))
                      /\ cursor_pos = len(SubSeq(ed_pre.current_line, 1, WordStart))

\* how many more times o occurs in s than c
Depth(s, o, c) ==
    Cardinality({ i \in 1..Len(s) : s[i] = o }) - Cardinality({ i \in 1..Len(s) : s[i] = c })

\* the line s asks for a continuation: its last character that is not
\* whitespace is a backslash, or one of the three bracket kinds has more
\* openers than closers over the whole line
Unterminated(s) ==
    \/ \E i \in 1..Len(s) :
          s[i] = "\\" /\ \A j \in (i + 1)..Len(s) : is_whitespace(s[j])
    \/ Depth(s, "(", ")") > 0
    \/ Depth(s, "{", "}") > 0
    \/ Depth(s, "[", "]") > 0

\* C16: with multiline mode on, Enter on an unterminated line does not
\* commit and appends a newline to the line; Enter on any other line
\* commits; with multiline mode off Enter always commits.
C16_MultilineEnter ==
    After(Named("Enter")) =>
        IF multiline_mode /\ Unterminated(ed_pre.current_line)
        THEN /\ mode = "Reading"
             /\ line_ret = None
             /\ current_line = Append(ed_pre.current_line, "\n")
        ELSE /\ mode = "Committed"
             /\ line_ret # None /\ Unwrap(line_ret).ok

\* C16 witness: with multiline mode on, Enter continued a line whose second
\* line closes nothing of the bracket its first line opened.
C16_Witness ==
    /\ After(Named("Enter"))
    /\ multiline_mode
    /\ mode = "Reading"
    /\ ed_pre.current_line = <<"(", "\n">>
    /\ current_line = <<"(", "\n", "\n">>

\* C17: a committing Enter returns the line as it stands and the history
\* gets an add of that same text when the line is not blank; a blank line is
\* returned and leaves the entries as they were when read_line started.
C17_CommitVerbatim ==
    mode = "Committed" =>
        LET line == ed_pre.current_line IN
        /\ line_ret = Some(OkLine(line))
        /\ history.commands =
              IF trim(line) = <<>> \/ back(hist0) = Some(line)
              THEN hist0
              ELSE Append(hist0, line)

\* C17 witness: a line with a space before its text was committed and added
\* as it is.
C17_Witness ==
    /\ mode = "Committed"
    /\ line_ret = Some(OkLine(<<" ", "a">>))
    /\ history.commands = Append(hist0, <<" ", "a">>)

\* C18: Ctrl-C in the loop of read_line ends it with the Interrupted error,
\* empties the line and leaves the history entries as they were when
\* read_line started.
C18_Interrupted ==
    After(Ctrl(99)) =>
        /\ mode = "Interrupted"
        /\ line_ret = Some(Err("Interrupted"))
        /\ current_line = <<>>
        /\ history.commands = hist0

\* C18 witness: Ctrl-C came with text in the line and the history cursor on
\* an entry.
C18_Witness ==
    /\ After(Ctrl(99))
    /\ mode = "Interrupted"
    /\ ed_pre.current_line # <<>>
    /\ history.current_index # None

\* C19: Ctrl-D on the empty line ends read_line with the EOF error, which
\* differs from the Interrupted error, and nothing else returns it; on a line
\* that is not empty Ctrl-D does not end read_line and deletes the character
\* at the cursor, if one remains.
C19_CtrlD ==
    /\ After(Ctrl(100)) =>
          IF ed_pre.current_line = <<>>
          THEN /\ mode = "EndOfInput"
               /\ line_ret = Some(Err("EOF"))
               /\ Err("EOF") # Err("Interrupted")
          ELSE /\ mode = "Reading"
               /\ line_ret = None
               /\ DeletedAtCursor
    /\ line_ret = Some(Err("EOF"))
          => After(Ctrl(100)) /\ ed_pre.current_line = <<>>

\* the entry ArrowUp shows: the newest when not navigating, else the one
\* before the cursor, the oldest being the last stop; None on an empty log
UpEntry(h) ==
    LET n == Len(h.commands) IN
    IF n = 0 THEN None
    ELSE IF h.current_index = None THEN Some(h.commands[n])
    ELSE IF Unwrap(h.current_index) > 0
    THEN Some(h.commands[Unwrap(h.current_index)])
    ELSE Some(h.commands[1])

\* the entry ArrowDown shows: the one after the cursor; None when not
\* navigating or when the cursor is on the newest entry
DownEntry(h) ==
    IF h.current_index # None /\ Unwrap(h.current_index) + 1 < Len(h.commands)
    THEN Some(h.commands[Unwrap(h.current_index) + 2])
    ELSE None

\* C27: ArrowUp and ArrowDown that hit an entry put it in the buffer with the
\* cursor at its end; an ArrowDown that misses empties the buffer and sets
\* the cursor to 0; ArrowUp on an empty history changes neither; the entries
\* of the history stay as they are.
C27_HistoryKeys ==
    [][(mode = "Reading" /\ ~panicked) =>
         /\ last_key' = Some(Named("ArrowUp")) =>
              /\ history'.commands = history.commands
              /\ IF UpEntry(history) # None
                 THEN /\ current_line' = Unwrap(UpEntry(history))
                      /\ cursor_pos' = len(current_line')
                 ELSE UNCHANGED <<current_line, cursor_pos>>
         /\ last_key' = Some(Named("ArrowDown")) =>
              /\ history'.commands = history.commands
              /\ IF DownEntry(history) # None
                 THEN /\ current_line' = Unwrap(DownEntry(history))
                      /\ cursor_pos' = len(current_line')
                 ELSE current_line' = <<>> /\ cursor_pos' = 0]_vars

\* C27 witness: after ArrowUp had walked to the oldest of two entries and a
\* character was typed there, ArrowDown replaced the buffer with the newer
\* entry.
C27_Witness ==
    /\ mode = "Reading"
    /\ last_key = Some(Named("ArrowDown"))
    /\ Len(history.commands) = 2
    /\ history.current_index = Some(1)
    /\ Len(ed_pre.current_line) > 1
    /\ current_line = history.commands[2]
    /\ cursor_pos = len(current_line)

\* C23: when Enter, Ctrl-C or Escape ends the reverse search, the buffer holds
\* the match the search displayed for the pattern, if it displayed one, with
\* the cursor at its end, and read_line goes on reading keys.  The display
\* shows find_in_history(search_term) after every change of the pattern and
\* after every Ctrl-R.
C23_SearchExitCommits ==
    [][(mode = "Searching" /\ ~panicked
          /\ last_key' \in {Some(Named("Enter")), Some(Ctrl(99)), Some(Named("Escape"))}) =>
         LET displayed == find_in_history(SelfNow, search_term) IN
         /\ mode' = "Reading"
         /\ line_ret' = None
         /\ displayed # None =>
              /\ current_line' = Unwrap(displayed)
              /\ cursor_pos' = len(current_line')]_vars

\* C24: a Ctrl-R in the reverse search that follows another Ctrl-R there,
\* the pattern being the same, moves from the match in the buffer to the
\* next older entry that contains the pattern, when there is one.
C24_RepeatedCtrlR ==
    [][(mode = "Searching" /\ ~panicked
          /\ last_key = Some(Ctrl(114)) /\ ed_pre.mode = "Searching"
          /\ last_key' = Some(Ctrl(114)) /\ mode' = "Searching") =>
         LET matches == MatchesNewestFirst(history.commands, search_term) IN
         \A k \in 1..(Len(matches) - 1) :
             current_line = matches[k] => current_line' = matches[k + 1]]_vars

\* C26: an Enter that continues the line with the cursor at the end of the
\* buffer leaves the cursor at the end of the buffer, after the newline it
\* appended.
C26_CursorAfterNewline ==
    (After(Named("Enter")) /\ mode = "Reading"
        /\ ed_pre.cursor_pos = len(ed_pre.current_line)) =>
        /\ current_line = Append(ed_pre.current_line, "\n")
        /\ cursor_pos = len(current_line)

(***************************************************************************)
(* Properties of the raw mode controller.                                  *)
(***************************************************************************)
\* C20: enable_raw_mode on a terminal that is raw and disable_raw_mode on
\* one that is not change neither the mode of the terminal nor the saved
\* snapshot; a disable_raw_mode that succeeds on a raw terminal leaves the
\* terminal in the mode it had when enable_raw_mode succeeded.
C20_RawModeIdempotent ==
    /\ (raw_op.name = "enable_raw_mode" /\ raw_pre.is_raw)
          => RawState = raw_pre /\ raw_op.ret = "Ok"
    /\ (raw_op.name = "disable_raw_mode" /\ ~raw_pre.is_raw)
          => RawState = raw_pre /\ raw_op.ret = "Ok"
    /\ (raw_op.name = "disable_raw_mode" /\ raw_pre.is_raw /\ raw_op.ret = "Ok")
          => /\ captured # None
             /\ tty = Unwrap(captured)
             /\ ~is_raw

\* C21: no two RawTerminal values are in the raw state at once.
C21_OneRawSession == ~(is_raw /\ other # None /\ Unwrap(other).is_raw)

\* whether t is a raw mode: no line buffering and no echo
IsRawMode(t) == "ICANON" \notin t.c_lflag /\ "ECHO" \notin t.c_lflag

\* C22: the terminal is in raw mode while read_line reads keys, and in the
\* mode it had before once read_line has returned, whichever way it returned.
C22_RawWhileReading ==
    /\ mode \in {"Reading", "Searching"} => IsRawMode(tty)
    /\ mode \in {"Committed", "Interrupted", "EndOfInput", "Failed"} => tty = Cooked

\* C20 witness: disable_raw_mode put back the mode enable_raw_mode had
\* found, which is not the cooked mode and not the mode it found itself.
C20_Witness ==
    /\ raw_op = [name |-> "disable_raw_mode", ret |-> "Ok"]
    /\ raw_pre.is_raw
    /\ captured = Some(tty)
    /\ tty # Cooked
    /\ tty # raw_pre.tty

====
